---- MODULE Spec2Model ----
(***************************************************************************)
(* netMonitor (src/main.c): discovery workers, the network thread          *)
(* (discovery barrier, sentinel, sort, monitoring sweeps) and the main     *)
(* (presentation) thread, sharing the host registry under host_list_mutex. *)
(*                                                                         *)
(* An IPv4 address is the tuple of its four octets; a subnet prefix        *)
(* ("a.b.c.") is the tuple of its three octets, <<>> the empty string.     *)
(* Only well-formed prefixes are modelled.  Reverse DNS is assumed never   *)
(* to answer the literal name "INTERNET".                                  *)
(***************************************************************************)
EXTENDS Integers, Sequences, FiniteSets, TLC

\* ---------------------------------------------------------------- configuration
START_HOST == 1
\* END_HOST is 254 in the source; the model scans 1..END_HOST.
END_HOST == 8
\* NUM_THREADS is 50 in the source.
NUM_THREADS == 2
COMMON_PORTS == <<21, 22, 23, 80, 443, 445, 3389, 8080>>
\* The source probes all 8 ports; the model probes the first NUM_COMMON_PORTS.
NUM_COMMON_PORTS == 2
\* The values of END_HOST and NUM_THREADS in the source, for the partition
\* the program really computes.
SourceEndHost == 254
SourceNumThreads == 50
PING_FAIL_THRESHOLD == 3
INTERNET_CHECK_IP == <<8, 8, 8, 8>>
DEFAULT_SUBNET == <<192, 168, 1>>

\* consecutive_failures is an unbounded int; a failing sweep step is taken
\* only while the counter is below MaxFailures.
MaxFailures == 4
\* flash_timer counts frames of highlight left: 1.0f decays by 0.05f a frame
\* (20 frames in the source).
FlashFull == 1
\* The monitor sleeps MONITOR_INTERVAL_S * 10 slices of 100 ms (50 in the source).
SleepSlices == 1

\* Environment: the subnet given on the command line (or none), the subnets
\* interface detection can return, the addresses where a machine may accept a
\* connection during discovery, and what getnameinfo can answer.
\* Command lines: no argument, "8.8.8.", "abc", "" and the 16 characters of
\* "192.168.100.100.".
Arguments ==
    { <<>>,
      << <<"8", ".", "8", ".", "8", ".">> >>,
      << <<"a", "b", "c">> >>,
      << <<>> >>,
      << <<"1", "9", "2", ".", "1", "6", "8", ".",
           "1", "0", "0", ".", "1", "0", "0", ".">> >> }
\* What active_subnet holds once main has read the command line.
ArgSubnets == {<<>>, <<8, 8, 8>>}
DetectedSubnets == {<<192, 168, 1>>}
LiveHosts == {<<8, 8, 8, 1>>, <<8, 8, 8, 8>>, <<192, 168, 1, 1>>}
DnsResults == {"host.lan", "N/A"}

Statuses == {"SCANNING", "UP", "UNSTABLE", "DOWN"}
Workers == 0 .. (NUM_THREADS - 1)

VARIABLES
    argv,                       \* the command line after the program name
    active_subnet,              \* char active_subnet[16]
    host_little_endian,         \* byte order of the machine the build runs on
    discovered_hosts,           \* MonitoredHost* discovered_hosts, [0, count)
    discovered_hosts_capacity,  \* int discovered_hosts_capacity
    discovery_complete,         \* bool discovery_complete
    app_is_running,             \* volatile bool app_is_running
    host_list_mutex,            \* owner of host_list_mutex, "none" when free
    w_pc, w_i, w_p,             \* discovery_worker: position, i, p
    probed_ok,                  \* host numbers whose discovery probe succeeded
    net_pc, net_i,              \* network_thread_main: position, loop index i
    mon_i, mon_p,               \* monitoring sweep: host index (1-based), port index
    is_online, old_status,      \* locals of the sweep's loop body
    alert_for,                  \* host index Mix_PlayChannel was called for in
                                \* the latest sweep step, 0 if it was not called
    sleep_i,                    \* index of the sleep loop
    main_pc,                    \* main(): position
    \* History of the check_port calls, recorded for the properties:
    w_log,                      \* per worker, <<port, result>> of each call made
                                \* for the host it is on
    probed_by,                  \* per host number, the workers that probed it
    mon_log,                    \* <<port, result>> of each call made for the
                                \* host the sweep is on
    sweep_order,                \* indices updated so far in the latest sweep
    w_late, mon_late            \* whether a check_port call was made with
                                \* app_is_running false, in the worker's
                                \* running port loop and in the running sweep

vars == <<argv, active_subnet, host_little_endian, discovered_hosts,
          discovered_hosts_capacity, discovery_complete, app_is_running,
          host_list_mutex, w_pc, w_i, w_p, probed_ok, net_pc, net_i,
          mon_i, mon_p, is_online, old_status, alert_for, sleep_i, main_pc,
          w_log, probed_by, mon_log, sweep_order, w_late, mon_late>>

discovered_hosts_count == Len(discovered_hosts)

\* ---------------------------------------------------------------- pure functions

\* snprintf(ip, sizeof(ip), "%s%d", args->subnet, i)
HostIp(subnet, i) == Append(subnet, i)

\* Discovery partition (network_thread_main).
hosts_per_thread(first, last, n) == (last - first + 1) \div n
start_host(t, first, last, n) == first + t * hosts_per_thread(first, last, n)
\* The partition without the remainder given to the last worker.
end_host_no_remainder(t, first, last, n) ==
    start_host(t, first, last, n) + hosts_per_thread(first, last, n) - 1

end_host(t, first, last, n) ==
    IF t = n - 1 THEN last
    ELSE start_host(t, first, last, n) + hosts_per_thread(first, last, n) - 1

\* inet_pton stores the address in network byte order; s_addr is that word
\* read by the host, given here as its bytes from most to least significant.
s_addr(ip) ==
    IF host_little_endian THEN <<ip[4], ip[3], ip[2], ip[1]>> ELSE ip

\* Unsigned comparison of two 32-bit words given by their bytes.
RECURSIVE WordLess(_, _)
WordLess(x, y) ==
    IF x = <<>> THEN FALSE
    ELSE IF Head(x) # Head(y) THEN Head(x) < Head(y)
    ELSE WordLess(Tail(x), Tail(y))

\* compare_hosts without the special case for the first argument.
compare_hosts_second_only(a, b) ==
    IF b.hostname = "INTERNET" THEN -1
    ELSE IF WordLess(s_addr(a.ip), s_addr(b.ip)) THEN -1
    ELSE IF WordLess(s_addr(b.ip), s_addr(a.ip)) THEN 1
    ELSE 0

compare_hosts(a, b) ==
    IF a.hostname = "INTERNET" THEN 1
    ELSE IF b.hostname = "INTERNET" THEN -1
    ELSE IF WordLess(s_addr(a.ip), s_addr(b.ip)) THEN -1
    ELSE IF WordLess(s_addr(b.ip), s_addr(a.ip)) THEN 1
    ELSE 0

\* qsort(discovered_hosts, count, sizeof(MonitoredHost), compare_hosts),
\* as an insertion sort driven by the comparator.
RECURSIVE InsertSorted(_, _)
InsertSorted(h, s) ==
    IF s = <<>> THEN <<h>>
    ELSE IF compare_hosts(h, Head(s)) <= 0 THEN <<h>> \o s
    ELSE <<Head(s)>> \o InsertSorted(h, Tail(s))

RECURSIVE qsort(_)
qsort(s) == IF s = <<>> THEN <<>> ELSE InsertSorted(Head(s), qsort(Tail(s)))

\* add_host_to_list: the linear scan for an identical ip.
HasIp(hosts, ip) == \E k \in 1 .. Len(hosts) : hosts[k].ip = ip

NewHost(ip, hostname) ==
    [ip |-> ip, hostname |-> hostname, status |-> "UP",
     consecutive_failures |-> 0, flash_timer |-> FlashFull]

\* add_host_to_list(ip, hostname_override) on the list `hosts`; `hostname` is
\* the override, or what getnameinfo answered ("N/A" when it failed).
add_host_overwrites(hosts, ip, hostname) ==
    IF HasIp(hosts, ip)
    THEN [k \in 1 .. Len(hosts) |->
             IF hosts[k].ip = ip THEN NewHost(ip, hostname) ELSE hosts[k]]
    ELSE Append(hosts, NewHost(ip, hostname))

add_host_to_list(hosts, ip, hostname) ==
    IF HasIp(hosts, ip) THEN hosts ELSE Append(hosts, NewHost(ip, hostname))

\* The realloc growth of add_host_to_list.
GrownCapacity(count, capacity) ==
    IF count >= capacity
    THEN (IF capacity = 0 THEN 10 ELSE capacity * 2)
    ELSE capacity

\* The body of the monitoring loop for one host, after its probes.
NextFailures_no_reset(h, online) ==
    IF online THEN h.consecutive_failures ELSE h.consecutive_failures + 1

NextFailures(h, online) == IF online THEN 0 ELSE h.consecutive_failures + 1

NextStatus_strict(h, online) ==
    IF online THEN "UP"
    ELSE IF NextFailures(h, online) > PING_FAIL_THRESHOLD THEN "DOWN"
    ELSE "UNSTABLE"

NextStatus(h, online) ==
    IF online THEN "UP"
    ELSE IF NextFailures(h, online) >= PING_FAIL_THRESHOLD THEN "DOWN"
    ELSE "UNSTABLE"

AlertFires_every_sweep(h, online) ==
    /\ ~online
    /\ NextFailures(h, online) >= PING_FAIL_THRESHOLD

AlertFires(h, online) ==
    /\ ~online
    /\ NextFailures(h, online) >= PING_FAIL_THRESHOLD
    /\ h.status # "DOWN"

\* A sweep step that restarts the highlight whatever the status does.
NextFlash_always(h, online) == FlashFull

NextFlash(h, online) ==
    IF NextStatus(h, online) # h.status THEN FlashFull ELSE h.flash_timer

UpdateHost(h, online) ==
    [h EXCEPT !.status = NextStatus(h, online),
              !.consecutive_failures = NextFailures(h, online),
              !.flash_timer = NextFlash(h, online)]

\* A sweep step that drops the entry instead of marking it DOWN.
UpdateEntry_prunes_down(hosts, k, online) ==
    IF NextStatus(hosts[k], online) = "DOWN"
    THEN SubSeq(hosts, 1, k - 1) \o SubSeq(hosts, k + 1, Len(hosts))
    ELSE [hosts EXCEPT ![k] = UpdateHost(hosts[k], online)]

\* The sweep's update of discovered_hosts[k] in place.
UpdateEntry(hosts, k, online) ==
    [hosts EXCEPT ![k] = UpdateHost(hosts[k], online)]

\* The render loop with `=` for `==` in its status test.
DecayFlash_assigns_status(h) ==
    [h EXCEPT !.status = "UP",
              !.flash_timer = IF h.flash_timer > 0 THEN h.flash_timer - 1 ELSE 0]

\* The render loop's flash decay (one frame).
DecayFlash(h) ==
    IF h.flash_timer > 0 THEN [h EXCEPT !.flash_timer = h.flash_timer - 1] ELSE h

JoinReturns_at_once(t) == TRUE

\* pthread_join(threads[t]) returns once worker t has returned.
JoinReturns(t) == w_pc[t] = "done"

\* argv[1] is accepted when len > 0 && len < 16 && argv[1][len - 1] == '.'
\* (a string is the sequence of its characters).
SubnetArgOk_sixteen(arg) ==
    /\ Len(arg) > 0
    /\ Len(arg) <= 16
    /\ arg[Len(arg)] = "."

SubnetArgOk(arg) ==
    /\ Len(arg) > 0
    /\ Len(arg) < 16
    /\ arg[Len(arg)] = "."

\* The octets a prefix string denotes once "%s%d" and inet_pton read it.
DigitValue(c) ==
    CASE c = "1" -> 1 [] c = "2" -> 2 [] c = "3" -> 3 [] c = "4" -> 4
      [] c = "5" -> 5 [] c = "6" -> 6 [] c = "7" -> 7 [] c = "8" -> 8
      [] c = "9" -> 9 [] OTHER -> 0

RECURSIVE ParseOctets(_, _, _)
ParseOctets(chars, octets, n) ==
    IF chars = <<>> THEN octets
    ELSE IF Head(chars) = "." THEN ParseOctets(Tail(chars), Append(octets, n), 0)
    ELSE ParseOctets(Tail(chars), octets, n * 10 + DigitValue(Head(chars)))

PrefixOctets(chars) == ParseOctets(chars, <<>>, 0)

\* The port loops: for (p = 0; p < NUM_COMMON_PORTS; p++) { if (check_port)
\* { ...; break; } }.  The loop ends after the call for port p when the call
\* succeeded or p was the last port.
PortLoopEnds_no_break(ok, p) == p >= NUM_COMMON_PORTS

PortLoopEnds(ok, p) == ok \/ p >= NUM_COMMON_PORTS

\* for (int i = 0; i < discovered_hosts_count; i++), i being the number of
\* entries already visited.
SweepContinues_skips_last(i, count) == i < count - 1

SweepContinues(i, count) == i < count

\* while (app_is_running) of the monitoring phase.
MonitorContinues_forever == TRUE

MonitorContinues == app_is_running

\* The discovery worker's loop test with its cancellation check.
WorkerContinues_no_cancel(t) ==
    w_i[t] <= end_host(t, START_HOST, END_HOST, NUM_THREADS)

WorkerContinues(t) ==
    /\ w_i[t] <= end_host(t, START_HOST, END_HOST, NUM_THREADS)
    /\ app_is_running

\* The name under which a thread owns host_list_mutex.
WorkerName(t) == ToString(t)

\* pthread_mutex_lock: blocks until the mutex is free, then owns it.
pthread_mutex_lock_no_wait(owner) == host_list_mutex' = owner

pthread_mutex_lock(owner) ==
    /\ host_list_mutex = "none"
    /\ host_list_mutex' = owner

pthread_mutex_unlock == host_list_mutex' = "none"

\* add_host_to_list's two ways out, both through pthread_mutex_unlock: the
\* early return when the ip is already listed, and the end of the function.
AddReleases_not_on_duplicate(found) ==
    IF found THEN UNCHANGED host_list_mutex ELSE pthread_mutex_unlock

AddReleases(found) == pthread_mutex_unlock

\* The monitor's lock around a sweep, left out.
LockForSweep_omitted == UNCHANGED host_list_mutex

LockForSweep == pthread_mutex_lock("net")
\* ---------------------------------------------------------------- initial state

TypeOK ==
    /\ argv \in Arguments
    /\ active_subnet \in ArgSubnets \cup DetectedSubnets \cup {DEFAULT_SUBNET}
    /\ host_little_endian \in BOOLEAN
    /\ \A k \in 1 .. Len(discovered_hosts) :
          /\ discovered_hosts[k].status \in Statuses
          /\ discovered_hosts[k].consecutive_failures \in 0 .. MaxFailures
          /\ discovered_hosts[k].flash_timer \in 0 .. FlashFull
    /\ discovered_hosts_capacity >= discovered_hosts_count
    /\ discovery_complete \in BOOLEAN
    /\ app_is_running \in BOOLEAN
    /\ host_list_mutex \in {"none", "net", "main"} \cup {WorkerName(t) : t \in Workers}
    /\ \A t \in Workers :
          w_pc[t] \in {"unborn", "loop", "probe", "add", "adding", "done"}
    /\ net_pc \in {"unborn", "detect", "spawn", "join", "add_internet",
                   "adding_internet", "sort", "sorting", "mark", "mon_test",
                   "mon_lock", "sweep", "sweep_next", "sleep", "done"}
    /\ main_pc \in {"start", "init", "poll", "render", "rendering", "join",
                    "exited", "fatal"}

\* The state when main starts, on a little-endian machine (RegistrySpec below
\* takes both byte orders).
Init ==
    /\ argv \in Arguments
    /\ active_subnet = <<>>
    /\ host_little_endian = TRUE
    /\ discovered_hosts = <<>>
    /\ discovered_hosts_capacity = 0
    /\ discovery_complete = FALSE
    /\ app_is_running = TRUE
    /\ host_list_mutex = "none"
    /\ w_pc = [t \in Workers |-> "unborn"]
    /\ w_i = [t \in Workers |-> 0]
    /\ w_p = [t \in Workers |-> 1]
    /\ probed_ok = {}
    /\ net_pc = "unborn"
    /\ net_i = 0
    /\ mon_i = 0
    /\ mon_p = 1
    /\ is_online = FALSE
    /\ old_status = "SCANNING"
    /\ alert_for = 0
    /\ sleep_i = 0
    /\ main_pc = "start"
    /\ w_log = [t \in Workers |-> <<>>]
    /\ probed_by = [n \in START_HOST .. END_HOST |-> {}]
    /\ mon_log = <<>>
    /\ sweep_order = <<>>
    /\ w_late = [t \in Workers |-> FALSE]
    /\ mon_late = FALSE

registry_vars == <<discovered_hosts, discovered_hosts_capacity>>
worker_vars == <<w_pc, w_i, w_p, probed_ok, w_log, probed_by, w_late>>
monitor_vars == <<mon_i, mon_p, is_online, old_status, alert_for, sleep_i,
                  mon_log, sweep_order, mon_late>>
env_vars == <<argv, active_subnet, host_little_endian>>

\* ---------------------------------------------------------------- discovery_worker

\* for (i = start; i <= end; i++) { if (!app_is_running) break; ...
WorkerLoop(t) ==
    /\ w_pc[t] = "loop"
    /\ IF WorkerContinues(t)
       THEN w_pc' = [w_pc EXCEPT ![t] = "probe"] /\ w_p' = [w_p EXCEPT ![t] = 1]
       ELSE w_pc' = [w_pc EXCEPT ![t] = "done"] /\ w_p' = w_p
    /\ w_log' = [w_log EXCEPT ![t] = <<>>]
    /\ UNCHANGED <<w_i, probed_ok, probed_by, w_late, registry_vars, env_vars,
                   discovery_complete, app_is_running, host_list_mutex, net_pc,
                   net_i, monitor_vars, main_pc>>

\* One check_port(ip, COMMON_PORTS[p]) of the worker's port loop.
WorkerProbe(t) ==
    /\ w_pc[t] = "probe"
    /\ \E ok \in BOOLEAN :
          /\ ok => HostIp(active_subnet, w_i[t]) \in LiveHosts
          /\ w_log' = [w_log EXCEPT ![t] = Append(@, <<COMMON_PORTS[w_p[t]], ok>>)]
          /\ IF ~PortLoopEnds(ok, w_p[t])
             THEN /\ w_p' = [w_p EXCEPT ![t] = w_p[t] + 1]
                  /\ w_late' = [w_late EXCEPT ![t] = @ \/ ~app_is_running]
                  /\ UNCHANGED <<w_pc, w_i, probed_ok>>
             ELSE IF ok
             THEN /\ w_pc' = [w_pc EXCEPT ![t] = "add"]
                  /\ probed_ok' = probed_ok \cup {w_i[t]}
                  /\ w_late' = [w_late EXCEPT ![t] = FALSE]
                  /\ UNCHANGED <<w_i, w_p>>
             ELSE /\ w_pc' = [w_pc EXCEPT ![t] = "loop"]
                  /\ w_i' = [w_i EXCEPT ![t] = w_i[t] + 1]
                  /\ w_late' = [w_late EXCEPT ![t] = FALSE]
                  /\ UNCHANGED <<w_p, probed_ok>>
    /\ probed_by' = [probed_by EXCEPT ![w_i[t]] = @ \cup {t}]
    /\ UNCHANGED <<registry_vars, env_vars, discovery_complete, app_is_running,
                   host_list_mutex, net_pc, net_i, monitor_vars, main_pc>>

\* add_host_to_list: pthread_mutex_lock(&host_list_mutex)
WorkerLock(t) ==
    /\ w_pc[t] = "add"
    /\ pthread_mutex_lock(WorkerName(t))
    /\ w_pc' = [w_pc EXCEPT ![t] = "adding"]
    /\ UNCHANGED <<w_i, w_p, probed_ok, w_log, probed_by, w_late, registry_vars,
                   env_vars, discovery_complete, app_is_running, net_pc, net_i,
                   monitor_vars, main_pc>>

\* add_host_to_list(ip, NULL) under the lock (scan; append unless found;
\* unlock on either path), then break out of the port loop.
WorkerAdd(t) ==
    /\ w_pc[t] = "adding"
    /\ \E name \in DnsResults :
          discovered_hosts' =
              add_host_to_list(discovered_hosts, HostIp(active_subnet, w_i[t]), name)
    /\ discovered_hosts_capacity' =
          IF discovered_hosts' = discovered_hosts THEN discovered_hosts_capacity
          ELSE GrownCapacity(discovered_hosts_count, discovered_hosts_capacity)
    /\ AddReleases(HasIp(discovered_hosts, HostIp(active_subnet, w_i[t])))
    /\ w_pc' = [w_pc EXCEPT ![t] = "loop"]
    /\ w_i' = [w_i EXCEPT ![t] = w_i[t] + 1]
    /\ UNCHANGED <<w_p, probed_ok, w_log, probed_by, w_late, env_vars,
                   discovery_complete, app_is_running, net_pc, net_i,
                   monitor_vars, main_pc>>

\* ---------------------------------------------------------------- network_thread_main

\* Phase 1: if no subnet was given, detect it or fall back to DEFAULT_SUBNET.
NetDetect ==
    /\ net_pc = "detect"
    /\ IF active_subnet = <<>>
       THEN active_subnet' \in DetectedSubnets \cup {DEFAULT_SUBNET}
       ELSE active_subnet' = active_subnet
    /\ net_pc' = "spawn"
    /\ net_i' = 0
    /\ UNCHANGED <<argv, host_little_endian, registry_vars, discovery_complete,
                   app_is_running, host_list_mutex, worker_vars, monitor_vars,
                   main_pc>>

\* pthread_create(&threads[i], NULL, discovery_worker, args)
NetSpawn ==
    /\ net_pc = "spawn"
    /\ w_pc' = [w_pc EXCEPT ![net_i] = "loop"]
    /\ w_i' = [w_i EXCEPT ![net_i] =
                  start_host(net_i, START_HOST, END_HOST, NUM_THREADS)]
    /\ IF net_i + 1 < NUM_THREADS
       THEN net_i' = net_i + 1 /\ net_pc' = net_pc
       ELSE net_i' = 0 /\ net_pc' = "join"
    /\ UNCHANGED <<w_p, probed_ok, w_log, probed_by, w_late, registry_vars,
                   env_vars, discovery_complete, app_is_running, host_list_mutex,
                   monitor_vars, main_pc>>

\* pthread_join(threads[i], NULL)
NetJoin ==
    /\ net_pc = "join"
    /\ JoinReturns(net_i)
    /\ IF net_i + 1 < NUM_THREADS
       THEN net_i' = net_i + 1 /\ net_pc' = net_pc
       ELSE net_i' = 0 /\ net_pc' = "add_internet"
    /\ UNCHANGED <<worker_vars, registry_vars, env_vars, discovery_complete,
                   app_is_running, host_list_mutex, monitor_vars, main_pc>>

\* add_host_to_list(INTERNET_CHECK_IP, "INTERNET"): pthread_mutex_lock
NetLockAdd ==
    /\ net_pc = "add_internet"
    /\ pthread_mutex_lock("net")
    /\ net_pc' = "adding_internet"
    /\ UNCHANGED <<registry_vars, net_i, worker_vars, env_vars, discovery_complete,
                   app_is_running, monitor_vars, main_pc>>

\* add_host_to_list(INTERNET_CHECK_IP, "INTERNET") under the lock
NetAddInternet ==
    /\ net_pc = "adding_internet"
    /\ discovered_hosts' =
          add_host_to_list(discovered_hosts, INTERNET_CHECK_IP, "INTERNET")
    /\ discovered_hosts_capacity' =
          IF discovered_hosts' = discovered_hosts THEN discovered_hosts_capacity
          ELSE GrownCapacity(discovered_hosts_count, discovered_hosts_capacity)
    /\ AddReleases(HasIp(discovered_hosts, INTERNET_CHECK_IP))
    /\ net_pc' = "sort"
    /\ UNCHANGED <<net_i, worker_vars, env_vars, discovery_complete,
                   app_is_running, monitor_vars, main_pc>>

\* pthread_mutex_lock(&host_list_mutex) before the sort
NetLockSort ==
    /\ net_pc = "sort"
    /\ pthread_mutex_lock("net")
    /\ net_pc' = "sorting"
    /\ UNCHANGED <<registry_vars, net_i, worker_vars, env_vars, discovery_complete,
                   app_is_running, monitor_vars, main_pc>>

\* qsort(...); pthread_mutex_unlock(&host_list_mutex)
NetSort ==
    /\ net_pc = "sorting"
    /\ discovered_hosts' = qsort(discovered_hosts)
    /\ pthread_mutex_unlock
    /\ net_pc' = "mark"
    /\ UNCHANGED <<discovered_hosts_capacity, net_i, worker_vars, env_vars,
                   discovery_complete, app_is_running, monitor_vars, main_pc>>

\* discovery_complete = true;
NetMarkComplete ==
    /\ net_pc = "mark"
    /\ discovery_complete' = TRUE
    /\ net_pc' = "mon_test"
    /\ UNCHANGED <<registry_vars, net_i, worker_vars, env_vars, app_is_running,
                   host_list_mutex, monitor_vars, main_pc>>

\* while (app_is_running) {
NetMonTest ==
    /\ net_pc = "mon_test"
    /\ net_pc' = IF MonitorContinues THEN "mon_lock" ELSE "done"
    /\ UNCHANGED <<registry_vars, net_i, worker_vars, env_vars, discovery_complete,
                   app_is_running, host_list_mutex, monitor_vars, main_pc>>

\* pthread_mutex_lock(&host_list_mutex); for (i = 0; ...
NetLock ==
    /\ net_pc = "mon_lock"
    /\ LockForSweep
    /\ mon_i' = 0
    /\ sweep_order' = <<>>
    /\ net_pc' = "sweep_next"
    /\ UNCHANGED <<registry_vars, net_i, worker_vars, env_vars, discovery_complete,
                   app_is_running, mon_p, is_online, old_status, alert_for,
                   sleep_i, mon_log, mon_late, main_pc>>

\* i < discovered_hosts_count: start the next host's iteration (is_online =
\* false), otherwise unlock and enter the sleep loop.  The locals of the
\* iteration that ended go out of scope.
MonitorNext ==
    /\ net_pc = "sweep_next"
    /\ IF SweepContinues(mon_i, discovered_hosts_count)
       THEN /\ mon_i' = mon_i + 1
            /\ mon_p' = 1
            /\ net_pc' = "sweep"
            /\ UNCHANGED <<host_list_mutex, sleep_i, mon_late>>
       ELSE /\ pthread_mutex_unlock
            /\ sleep_i' = 0
            /\ mon_late' = FALSE
            /\ net_pc' = "sleep"
            /\ UNCHANGED <<mon_i, mon_p>>
    /\ is_online' = FALSE
    /\ old_status' = "SCANNING"
    /\ alert_for' = 0
    /\ mon_log' = <<>>
    /\ UNCHANGED <<registry_vars, net_i, worker_vars, env_vars, discovery_complete,
                   app_is_running, sweep_order, main_pc>>

\* The rest of the loop body for host mon_i once is_online is decided.
MonitorUpdate(online) ==
    /\ is_online' = online
    /\ old_status' = discovered_hosts[mon_i].status
    /\ alert_for' = IF AlertFires(discovered_hosts[mon_i], online) THEN mon_i ELSE 0
    /\ discovered_hosts' = UpdateEntry(discovered_hosts, mon_i, online)
    /\ sweep_order' = Append(sweep_order, mon_i)
    /\ net_pc' = "sweep_next"
    /\ UNCHANGED <<mon_i, mon_p>>

\* One check_port(discovered_hosts[i].ip, COMMON_PORTS[p]) of the sweep; the
\* probe that ends the port loop is followed by the update of the host.
MonitorProbe ==
    /\ net_pc = "sweep"
    /\ \E ok \in BOOLEAN :
          /\ mon_log' = Append(mon_log, <<COMMON_PORTS[mon_p], ok>>)
          /\ IF ~PortLoopEnds(ok, mon_p)
             THEN /\ mon_p' = mon_p + 1
                  /\ UNCHANGED <<discovered_hosts, mon_i, is_online, old_status,
                                 alert_for, sweep_order, net_pc>>
             ELSE IF ok THEN MonitorUpdate(TRUE)
             ELSE /\ discovered_hosts[mon_i].consecutive_failures < MaxFailures
                  /\ MonitorUpdate(FALSE)
    /\ mon_late' = (mon_late \/ ~app_is_running)
    /\ UNCHANGED <<discovered_hosts_capacity, net_i, worker_vars, env_vars,
                   discovery_complete, app_is_running, host_list_mutex, sleep_i,
                   main_pc>>

\* for (i = 0; i < MONITOR_INTERVAL_S * 10; i++) { if (!app_is_running) break; usleep }
NetSleep ==
    /\ net_pc = "sleep"
    /\ IF sleep_i < SleepSlices /\ app_is_running
       THEN sleep_i' = sleep_i + 1 /\ net_pc' = net_pc
       ELSE sleep_i' = sleep_i /\ net_pc' = "mon_test"
    /\ UNCHANGED <<registry_vars, net_i, worker_vars, env_vars, discovery_complete,
                   app_is_running, host_list_mutex, mon_i, mon_p, is_online,
                   old_status, alert_for, mon_log, sweep_order, mon_late, main_pc>>

\* ---------------------------------------------------------------- main

\* if (argc > 1) { validate argv[1]; strncpy into active_subnet, or print the
\* error and return 1 }
MainStart ==
    /\ main_pc = "start"
    /\ IF Len(argv) > 0
       THEN IF SubnetArgOk(argv[1])
            THEN active_subnet' = PrefixOctets(argv[1]) /\ main_pc' = "init"
            ELSE active_subnet' = active_subnet /\ main_pc' = "fatal"
       ELSE active_subnet' = active_subnet /\ main_pc' = "init"
    /\ UNCHANGED <<argv, host_little_endian, registry_vars, discovery_complete,
                   app_is_running, host_list_mutex, worker_vars, net_pc, net_i,
                   monitor_vars>>

\* init_sdl() && load_media(); pthread_mutex_init; pthread_create of the
\* network thread.  A failure of any of them ends main with return 1.
MainInit ==
    /\ main_pc = "init"
    /\ \E ok \in BOOLEAN :
          IF ok THEN main_pc' = "poll" /\ net_pc' = "detect"
          ELSE main_pc' = "fatal" /\ net_pc' = net_pc
    /\ UNCHANGED <<registry_vars, env_vars, discovery_complete, app_is_running,
                   host_list_mutex, worker_vars, net_i, monitor_vars>>

\* while (SDL_PollEvent(&e)) if (e.type == SDL_QUIT) app_is_running = false;
MainPoll ==
    /\ main_pc = "poll"
    /\ \E quit \in BOOLEAN :
          app_is_running' = (IF quit THEN FALSE ELSE app_is_running)
    /\ main_pc' = "render"
    /\ UNCHANGED <<registry_vars, env_vars, discovery_complete, host_list_mutex,
                   worker_vars, net_pc, net_i, monitor_vars>>

\* pthread_mutex_lock(&host_list_mutex) of the frame
MainLock ==
    /\ main_pc = "render"
    /\ pthread_mutex_lock("main")
    /\ main_pc' = "rendering"
    /\ UNCHANGED <<registry_vars, env_vars, discovery_complete, app_is_running,
                   worker_vars, net_pc, net_i, monitor_vars>>

\* summary; per-host rendering with flash decay; unlock; loop test
MainRender ==
    /\ main_pc = "rendering"
    /\ discovered_hosts' =
          [k \in 1 .. Len(discovered_hosts) |-> DecayFlash(discovered_hosts[k])]
    /\ pthread_mutex_unlock
    /\ main_pc' = IF app_is_running THEN "poll" ELSE "join"
    /\ UNCHANGED <<discovered_hosts_capacity, env_vars, discovery_complete,
                   app_is_running, worker_vars, net_pc, net_i, monitor_vars>>

\* pthread_join(network_thread, NULL); cleanup(); return 0;
MainJoin ==
    /\ main_pc = "join"
    /\ net_pc = "done"
    /\ main_pc' = "exited"
    /\ UNCHANGED <<registry_vars, env_vars, discovery_complete, app_is_running,
                   host_list_mutex, worker_vars, net_pc, net_i, monitor_vars>>

\* ---------------------------------------------------------------- specification

\* The steps of each thread.
Worker(t) == WorkerLoop(t) \/ WorkerProbe(t) \/ WorkerLock(t) \/ WorkerAdd(t)

NetThread ==
    \/ NetDetect
    \/ NetSpawn
    \/ NetJoin
    \/ NetLockAdd
    \/ NetAddInternet
    \/ NetLockSort
    \/ NetSort
    \/ NetMarkComplete
    \/ NetMonTest
    \/ NetLock
    \/ MonitorNext
    \/ MonitorProbe
    \/ NetSleep

MainThread ==
    \/ MainStart
    \/ MainInit
    \/ MainPoll
    \/ MainLock
    \/ MainRender
    \/ MainJoin

Next ==
    \/ \E t \in Workers : WorkerLoop(t)
    \/ \E t \in Workers : WorkerProbe(t)
    \/ \E t \in Workers : WorkerLock(t)
    \/ \E t \in Workers : WorkerAdd(t)
    \/ NetDetect
    \/ NetSpawn
    \/ NetJoin
    \/ NetLockAdd
    \/ NetAddInternet
    \/ NetLockSort
    \/ NetSort
    \/ NetMarkComplete
    \/ NetMonTest
    \/ NetLock
    \/ MonitorNext
    \/ MonitorProbe
    \/ NetSleep
    \/ MainStart
    \/ MainInit
    \/ MainPoll
    \/ MainLock
    \/ MainRender
    \/ MainJoin

Spec == Init /\ [][Next]_vars

\* Every thread that can take a step eventually takes one (the scheduler
\* runs every runnable thread, and every check_port call returns).
Fairness ==
    /\ \A t \in Workers : WF_vars(Worker(t))
    /\ WF_vars(NetThread)
    /\ WF_vars(MainThread)

FairSpec == Spec /\ Fairness

\* The same with a fair lock: a frame that is again and again able to take
\* host_list_mutex eventually takes it (the monitor sleeps MONITOR_INTERVAL_S
\* after each unlock, the frame asks every 16 ms).
FairLockSpec == Spec /\ Fairness /\ SF_vars(MainLock)

\* ---------------------------------------------------------------- registry operations on arbitrary lists
(***************************************************************************)
(* add_host_to_list and the sort are functions of the list they are given. *)
(* RegistrySpec runs the end of the discovery phase (the workers' last     *)
(* adds, the join, the sentinel's add and the sort) from every list of at  *)
(* most MaxInput entries with distinct addresses drawn from InputHosts, in *)
(* any order, with both workers about to add an address that may already   *)
(* be listed or may be the same for both.                                  *)
(***************************************************************************)
MaxInput == 3

InputHosts ==
    { [ip |-> <<1, 0, 0, 2>>, hostname |-> "host.lan", status |-> "UP",
       consecutive_failures |-> 0, flash_timer |-> FlashFull],
      [ip |-> <<2, 0, 0, 1>>, hostname |-> "N/A", status |-> "DOWN",
       consecutive_failures |-> 3, flash_timer |-> 0],
      [ip |-> <<9, 0, 0, 0>>, hostname |-> "host.lan", status |-> "UNSTABLE",
       consecutive_failures |-> 1, flash_timer |-> 0],
      [ip |-> INTERNET_CHECK_IP, hostname |-> "INTERNET", status |-> "UP",
       consecutive_failures |-> 0, flash_timer |-> FlashFull],
      [ip |-> INTERNET_CHECK_IP, hostname |-> "host.lan", status |-> "UNSTABLE",
       consecutive_failures |-> 2, flash_timer |-> 0],
      [ip |-> <<8, 8, 8, END_HOST - 1>>, hostname |-> "N/A", status |-> "DOWN",
       consecutive_failures |-> MaxFailures, flash_timer |-> 0] }

InputLists ==
    { s \in UNION { [1 .. n -> InputHosts] : n \in 0 .. MaxInput } :
        \A j, k \in 1 .. Len(s) : j # k => s[j].ip # s[k].ip }

RegistryInit ==
    /\ argv = << <<"8", ".", "8", ".", "8", ".">> >>
    /\ active_subnet = PrefixOctets(argv[1])
    /\ host_little_endian \in BOOLEAN
    /\ discovered_hosts \in InputLists
    /\ discovered_hosts_capacity = GrownCapacity(Len(discovered_hosts), 0)
    /\ discovery_complete = FALSE
    /\ app_is_running = TRUE
    /\ host_list_mutex = "none"
    /\ w_pc = [t \in Workers |-> "add"]
    /\ w_i \in [Workers -> {END_HOST - 1, END_HOST}]
    /\ w_p = [t \in Workers |-> 1]
    /\ probed_ok = {}
    /\ net_pc = "join"
    /\ net_i = 0
    /\ mon_i = 0
    /\ mon_p = 1
    /\ is_online = FALSE
    /\ old_status = "SCANNING"
    /\ alert_for = 0
    /\ sleep_i = 0
    /\ main_pc = "poll"
    /\ w_log = [t \in Workers |-> <<<<COMMON_PORTS[1], TRUE>>>>]
    /\ probed_by = [n \in START_HOST .. END_HOST |->
                       {t \in Workers : w_i[t] = n}]
    /\ mon_log = <<>>
    /\ sweep_order = <<>>
    /\ w_late = [t \in Workers |-> FALSE]
    /\ mon_late = FALSE

RegistryNext ==
    \/ \E t \in Workers : WorkerLoop(t)
    \/ \E t \in Workers : WorkerProbe(t)
    \/ \E t \in Workers : WorkerLock(t)
    \/ \E t \in Workers : WorkerAdd(t)
    \/ NetJoin
    \/ NetLockAdd
    \/ NetAddInternet
    \/ NetLockSort
    \/ NetSort

RegistrySpec == RegistryInit /\ [][RegistryNext]_vars

\* ---------------------------------------------------------------- properties

Host(k) == discovered_hosts[k]
Indices == 1 .. Len(discovered_hosts)

\* The step of the sweep that updates host mon_i.
SweepUpdates == net_pc = "sweep" /\ net_pc' = "sweep_next"

\* C1: every entry has consecutive_failures >= 0 and a status other than
\* SCANNING; it is DOWN iff the counter is >= 3, UNSTABLE iff the counter is
\* 1 or 2, UP iff the counter is 0.
C1_StatusMatchesFailures ==
    \A k \in Indices :
        /\ Host(k).consecutive_failures >= 0
        /\ Host(k).status # "SCANNING"
        /\ Host(k).status = "DOWN" <=> Host(k).consecutive_failures >= PING_FAIL_THRESHOLD
        /\ Host(k).status = "UNSTABLE" <=> Host(k).consecutive_failures \in {1, 2}
        /\ Host(k).status = "UP" <=> Host(k).consecutive_failures = 0

C1_Witness ==
    \E j, k \in Indices :
        /\ Host(j).status = "DOWN" /\ Host(j).consecutive_failures = MaxFailures
        /\ Host(k).status = "UNSTABLE" /\ Host(k).consecutive_failures = 2

\* C2: the alert is played in a sweep step for a host exactly when the host
\* was not DOWN before the step and is DOWN after it, which is exactly the
\* failing step that brings its counter to 3; no other step plays it.
C2_AlertOnEntryIntoDown ==
    [][ /\ SweepUpdates =>
             /\ alert_for' \in {0, mon_i}
             /\ alert_for' = mon_i <=>
                   (Host(mon_i).status # "DOWN" /\ discovered_hosts'[mon_i].status = "DOWN")
             /\ alert_for' = mon_i <=>
                   (~is_online' /\ discovered_hosts'[mon_i].consecutive_failures
                                      = PING_FAIL_THRESHOLD)
        /\ ~SweepUpdates => alert_for' \in {0, alert_for}
      ]_vars

C2_Witness ==
    /\ net_pc = "sweep_next"
    /\ mon_i \in Indices
    /\ alert_for = mon_i
    /\ old_status = "UNSTABLE"
    /\ Host(mon_i).status = "DOWN"
    /\ Host(mon_i).consecutive_failures = PING_FAIL_THRESHOLD

\* C3: a sweep step whose probe succeeded leaves the host UP with counter 0
\* whatever it was before; one whose probes all failed adds exactly 1 to the
\* counter; no other step changes the counter or the status of an entry.
C3_SweepStep ==
    [][ /\ SweepUpdates =>
             /\ is_online' =>
                   /\ discovered_hosts'[mon_i].status = "UP"
                   /\ discovered_hosts'[mon_i].consecutive_failures = 0
             /\ ~is_online' =>
                   discovered_hosts'[mon_i].consecutive_failures
                       = Host(mon_i).consecutive_failures + 1
        /\ \A k \in Indices :
             (~SweepUpdates \/ k # mon_i) =>
                 /\ k <= Len(discovered_hosts')
                 /\ discovered_hosts'[k].consecutive_failures = Host(k).consecutive_failures
                 /\ discovered_hosts'[k].status = Host(k).status
      ]_vars

C3_Witness ==
    /\ net_pc = "sweep_next"
    /\ mon_i \in Indices
    /\ is_online
    /\ old_status = "DOWN"
    /\ Host(mon_i).status = "UP"
    /\ Host(mon_i).consecutive_failures = 0

\* C4: when discovery was not cancelled, at the moment it is marked complete
\* the registry holds one entry per host number whose probe succeeded, plus
\* the sentinel, and nothing else, each entry UP with counter 0.
C4_RespondersPlusSentinel ==
    (net_pc = "mark" /\ app_is_running) =>
        /\ Len(discovered_hosts) = Cardinality(probed_ok) + 1
        /\ \A n \in probed_ok : HasIp(discovered_hosts, HostIp(active_subnet, n))
        /\ \E k \in Indices :
              Host(k).ip = INTERNET_CHECK_IP /\ Host(k).hostname = "INTERNET"
        /\ \A k \in Indices :
              Host(k).status = "UP" /\ Host(k).consecutive_failures = 0

\* The same with the sentinel counted by address only: what the code does.
C4_RespondersAndSentinelAddress ==
    (net_pc = "mark" /\ app_is_running) =>
        /\ {Host(k).ip : k \in Indices}
              = {HostIp(active_subnet, n) : n \in probed_ok} \cup {INTERNET_CHECK_IP}
        /\ Len(discovered_hosts) = Cardinality({Host(k).ip : k \in Indices})
        /\ \A k \in Indices :
              Host(k).status = "UP" /\ Host(k).consecutive_failures = 0

\* C5: once discovery is marked complete the registry holds exactly one
\* sentinel entry, ip 8.8.8.8 with hostname "INTERNET".
C5_ExactlyOneSentinel ==
    discovery_complete =>
        Cardinality({k \in Indices :
            Host(k).ip = INTERNET_CHECK_IP /\ Host(k).hostname = "INTERNET"}) = 1

\* C6: after the sort, an entry whose hostname is "INTERNET" is the last one.
C6_SentinelLastAfterSort ==
    net_pc = "mark" =>
        \A k \in Indices : Host(k).hostname = "INTERNET" => k = Len(discovered_hosts)

C6_Witness ==
    /\ net_pc = "mark"
    /\ Len(discovered_hosts) = MaxInput + 1
    /\ Host(Len(discovered_hosts)).hostname = "INTERNET"
    /\ \E k \in Indices : Host(k).ip = <<9, 0, 0, 0>>
    /\ \E k \in Indices : Host(k).ip = <<8, 8, 8, END_HOST>>

C7_AscendingHostOrder ==
    net_pc = "mark" =>
        \A j, k \in Indices :
            (j < k /\ Host(j).hostname # "INTERNET" /\ Host(k).hostname # "INTERNET")
                => WordLess(s_addr(Host(j).ip), s_addr(Host(k).ip))

\* C8: addresses are unique in the registry, and an add of an address that
\* is already listed leaves the registry as it was, whichever thread calls
\* it and whatever hostname it supplies.
UniqueIps ==
    \A j, k \in Indices : j # k => Host(j).ip # Host(k).ip

C8_AddIsIdempotent ==
    /\ []UniqueIps
    /\ [][ /\ \A t \in Workers :
              (w_pc[t] = "adding" /\ w_pc'[t] # "adding"
                 /\ HasIp(discovered_hosts, HostIp(active_subnet, w_i[t])))
                  => discovered_hosts' = discovered_hosts
           /\ (net_pc = "adding_internet" /\ net_pc' = "sort"
                 /\ HasIp(discovered_hosts, INTERNET_CHECK_IP))
                  => discovered_hosts' = discovered_hosts
         ]_vars

C8_Witness ==
    /\ net_pc = "sort"
    /\ \E k \in Indices :
          /\ Host(k).ip = INTERNET_CHECK_IP
          /\ Host(k).hostname = "host.lan"
          /\ Host(k).status = "UNSTABLE"
          /\ Host(k).consecutive_failures = 2
    /\ \E k \in Indices :
          /\ Host(k).ip = <<8, 8, 8, END_HOST - 1>>
          /\ Host(k).hostname = "N/A"
          /\ Host(k).consecutive_failures = MaxFailures

\* C9: while the network thread is in the monitoring phase every discovery
\* worker has returned, the sentinel's add has run, the registry is sorted
\* and discovery is marked complete; once the sort is done no worker moves
\* and the registry does not grow.
AfterSort == {"mark", "mon_test", "mon_lock", "sweep", "sweep_next", "sleep", "done"}
Monitoring == {"mon_test", "mon_lock", "sweep", "sweep_next", "sleep"}

IsSorted ==
    \A j, k \in Indices : j < k => compare_hosts(Host(j), Host(k)) < 0

Membership == [k \in Indices |-> <<Host(k).ip, Host(k).hostname>>]

C10_MembershipFrozen ==
    [][ /\ Len(discovered_hosts') >= Len(discovered_hosts)
        /\ discovery_complete => Membership' = Membership ]_vars

C10_Witness ==
    /\ discovery_complete
    /\ Len(discovered_hosts) = 2
    /\ Host(1).status = "DOWN"
    /\ Host(2).status = "UNSTABLE"
    /\ Host(1).flash_timer = 0

\* The positions at which a thread reads or writes the registry.
WorkerInRegistry(t) == w_pc[t] = "adding"
NetInRegistry == net_pc \in {"adding_internet", "sorting", "sweep", "sweep_next"}
MainInRegistry == main_pc = "rendering"

InRegistry ==
    {WorkerName(t) : t \in {u \in Workers : WorkerInRegistry(u)}}
        \cup (IF NetInRegistry THEN {"net"} ELSE {})
        \cup (IF MainInRegistry THEN {"main"} ELSE {})

\* C11: a thread that is reading or writing the registry owns
\* host_list_mutex, so at most one thread is in the registry at a time; and
\* the registry is changed only by a step of the thread that owns the mutex.
C11_RegistryUnderLock ==
    /\ [](/\ InRegistry \subseteq {host_list_mutex}
          /\ Cardinality(InRegistry) <= 1)
    /\ [][ registry_vars' # registry_vars =>
              \/ \E t \in Workers :
                    /\ host_list_mutex = WorkerName(t)
                    /\ WorkerInRegistry(t) /\ w_pc'[t] # w_pc[t]
              \/ host_list_mutex = "net" /\ NetInRegistry /\ net_pc' # net_pc
              \/ host_list_mutex = "main" /\ MainInRegistry /\ main_pc' # main_pc
         ]_vars

\* A worker is adding while another worker and the presentation loop wait
\* for the mutex.
C11_Witness ==
    /\ main_pc = "render"
    /\ \E t, u \in Workers :
          /\ w_pc[t] = "adding"
          /\ w_pc[u] = "add"
          /\ host_list_mutex = WorkerName(t)

\* The positions of the network thread inside the sort or a sweep.
InSortOrSweep == net_pc \in {"sorting", "sweep", "sweep_next"}

\* C12: the network thread owns the mutex throughout the sort and
\* throughout each sweep, so while the presentation loop reads the registry
\* no sort or sweep is under way: the latest sweep has updated either no
\* entry or every entry; and nothing changes the list during a frame.
C12_FramesSeeWholeSweeps ==
    /\ [](InSortOrSweep => host_list_mutex = "net")
    /\ [](main_pc = "rendering" =>
            /\ ~InSortOrSweep
            /\ Len(sweep_order) \in {0, Len(discovered_hosts)})
    /\ [][ (main_pc = "rendering" /\ main_pc' = "rendering") =>
              discovered_hosts' = discovered_hosts ]_vars

\* The presentation loop waits for the mutex while a sweep has updated the
\* first of two entries and is probing the second.
C12_Witness ==
    /\ main_pc = "render"
    /\ net_pc = "sweep"
    /\ host_list_mutex = "net"
    /\ Len(discovered_hosts) = 2
    /\ sweep_order = <<1>>
    /\ Host(1).status = "UNSTABLE"

AllReturned ==
    /\ \A t \in Workers : w_pc[t] = "done"
    /\ net_pc = "done"
    /\ main_pc = "exited"

\* C13: once app_is_running is false, whatever the phase, every discovery
\* worker and the network thread eventually return and main's join of the
\* network thread returns (every check_port call returns and every runnable
\* thread is scheduled).
C13_ShutdownTerminates == (~app_is_running) ~> AllReturned

\* Everything has returned after a shutdown requested during monitoring.
C13_Witness ==
    /\ ~app_is_running
    /\ AllReturned
    /\ Len(discovered_hosts) = 2
    /\ Host(1).status = "DOWN"
    /\ Host(2).status = "UNSTABLE"

\* What the claim calls an acceptable argument.
ArgumentWellFormed(arg) ==
    /\ arg # <<>>
    /\ Len(arg) <= 15
    /\ arg[Len(arg)] = "."

NothingStarted ==
    /\ net_pc = "unborn"
    /\ \A t \in Workers : w_pc[t] = "unborn" /\ w_log[t] = <<>>
    /\ \A n \in START_HOST .. END_HOST : probed_by[n] = {}
    /\ mon_log = <<>>
    /\ discovered_hosts = <<>>

\* C14: main accepts argv[1] (copies it to active_subnet and goes on) iff
\* it is non-empty, shorter than 16 characters and ends with '.'; with any
\* other argument main returns 1 at once, and the process stays in that
\* state with no network thread, no worker, no probe and an empty registry.
C14_ArgumentValidation ==
    /\ [][ (main_pc = "start" /\ Len(argv) > 0) =>
              IF ArgumentWellFormed(argv[1])
              THEN main_pc' = "init" /\ active_subnet' # <<>>
              ELSE main_pc' = "fatal" /\ active_subnet' = <<>> ]_vars
    /\ []((main_pc # "start" /\ Len(argv) > 0 /\ ~ArgumentWellFormed(argv[1]))
             => (main_pc = "fatal" /\ NothingStarted))

\* main has returned 1 on the argument "abc".
C14_Witness ==
    /\ argv = << <<"a", "b", "c">> >>
    /\ main_pc = "fatal"
    /\ NothingStarted

\* The host numbers worker t of n scans in first .. last.
Range(t, first, last, n) ==
    start_host(t, first, last, n) .. end_host(t, first, last, n)

PartitionExact(first, last, n) ==
    /\ start_host(0, first, last, n) = first
    /\ end_host(n - 1, first, last, n) = last
    /\ \A t \in 0 .. (n - 2) :
          end_host(t, first, last, n) + 1 = start_host(t + 1, first, last, n)
    /\ \A h \in first .. last :
          Cardinality({t \in 0 .. (n - 1) : h \in Range(t, first, last, n)}) = 1
    /\ \A t \in 0 .. (n - 1) : Range(t, first, last, n) \subseteq first .. last

PortLoopLog(log) ==
    /\ Len(log) <= NUM_COMMON_PORTS
    /\ \A k \in 1 .. Len(log) : log[k][1] = COMMON_PORTS[k]
    /\ \A k \in 1 .. (Len(log) - 1) : ~log[k][2]

Accepted(log) == log # <<>> /\ log[Len(log)][2]
AllRefused(log) ==
    /\ Len(log) = NUM_COMMON_PORTS
    /\ \A k \in 1 .. Len(log) : ~log[k][2]

\* C16: in discovery and in a sweep the ports are probed in list order and
\* no port is probed after one that accepted; a worker goes to add the host
\* iff a port accepted, passes to the next host without adding only after
\* every port refused, and adds at most once per host; a sweep step sets
\* is_online iff a port accepted and decides offline only after every port
\* refused.
C16_ReachableIffSomePortAccepts ==
    /\ [](\A t \in Workers :
            /\ PortLoopLog(w_log[t])
            /\ w_pc[t] \in {"add", "adding"} => Accepted(w_log[t])
            /\ w_pc[t] = "probe" => ~Accepted(w_log[t])
            /\ (w_pc[t] = "loop" /\ w_log[t] # <<>>) =>
                  (Accepted(w_log[t]) \/ AllRefused(w_log[t])))
    /\ [](/\ PortLoopLog(mon_log)
          /\ net_pc = "sweep" => ~Accepted(mon_log)
          /\ (net_pc = "sweep_next" /\ mon_i > 0) =>
                /\ is_online <=> Accepted(mon_log)
                /\ ~is_online <=> AllRefused(mon_log))
    /\ [][ \A t \in Workers :
              /\ (w_pc[t] = "probe" /\ w_pc'[t] = "loop") =>
                    (AllRefused(w_log'[t]) /\ discovered_hosts' = discovered_hosts)
              /\ (w_pc[t] = "adding" /\ w_pc'[t] # "adding") =>
                    (w_pc'[t] = "loop" /\ w_i'[t] = w_i[t] + 1)
         ]_vars

\* A sweep step has judged a host offline after both ports refused, the
\* host having been found in discovery on its second port by worker 0.
C16_Witness ==
    /\ net_pc = "sweep_next"
    /\ mon_i = 1
    /\ ~is_online
    /\ mon_log = <<<<COMMON_PORTS[1], FALSE>>, <<COMMON_PORTS[2], FALSE>>>>
    /\ probed_ok = {START_HOST}
    /\ w_p[0] = 2

\* C17: a sweep updates the entries in ascending index order, each once:
\* the indices updated so far are 1, 2, ... without gap or repetition, a
\* step updates the entry after the last one updated and no other entry,
\* and when the sweep ends every entry has been updated.
C17_SweepVisitsEachOnceInOrder ==
    /\ [](/\ \A j \in 1 .. Len(sweep_order) : sweep_order[j] = j
          /\ Len(sweep_order) <= Len(discovered_hosts)
          /\ net_pc = "sleep" => Len(sweep_order) = Len(discovered_hosts))
    /\ [][ SweepUpdates =>
              /\ mon_i = Len(sweep_order) + 1
              /\ mon_log' # <<>>
              /\ sweep_order' = Append(sweep_order, mon_i)
              /\ \A k \in Indices : k # mon_i => discovered_hosts'[k] = Host(k)
         ]_vars

\* A sweep over two entries has ended, the first entry brought DOWN by it
\* and the second one UNSTABLE.
C17_Witness ==
    /\ net_pc = "sleep"
    /\ sweep_order = <<1, 2>>
    /\ Host(1).status = "DOWN"
    /\ Host(1).consecutive_failures = PING_FAIL_THRESHOLD
    /\ Host(1).flash_timer = FlashFull
    /\ Host(2).status = "UNSTABLE"

\* C18: a sweep step sets the host's flash_timer (to 1.0) iff its status
\* after the step differs from its status before; when the status is the
\* same the step leaves flash_timer as it was.
C18_FlashIffStatusChanges ==
    [][ SweepUpdates =>
          IF discovered_hosts'[mon_i].status # Host(mon_i).status
          THEN discovered_hosts'[mon_i].flash_timer = FlashFull
          ELSE discovered_hosts'[mon_i].flash_timer = Host(mon_i).flash_timer
      ]_vars

\* An UNSTABLE host whose highlight had decayed has failed again (counter 1
\* to 2) and the step has left the flag down.
C18_Witness ==
    /\ net_pc = "sweep_next"
    /\ mon_i \in Indices
    /\ old_status = "UNSTABLE"
    /\ Host(mon_i).status = "UNSTABLE"
    /\ Host(mon_i).consecutive_failures = 2
    /\ Host(mon_i).flash_timer = 0

\* The steps of main, of an add and of the sweep's update.
MainSteps == main_pc' # main_pc
AddSteps ==
    \/ \E t \in Workers : w_pc[t] = "adding" /\ w_pc'[t] # "adding"
    \/ net_pc = "adding_internet" /\ net_pc' # "adding_internet"

\* C19: a step of main leaves the length of the registry and every entry's
\* ip, hostname, status and consecutive_failures as they are and can only
\* lower flash_timer; the status of an entry changes only in a sweep's
\* update of that entry, and an entry appears only in an add, with status UP.
C19_RenderOnlyDecaysFlash ==
    [][ /\ MainSteps =>
             /\ Len(discovered_hosts') = Len(discovered_hosts)
             /\ \A k \in Indices :
                   /\ discovered_hosts'[k].ip = Host(k).ip
                   /\ discovered_hosts'[k].hostname = Host(k).hostname
                   /\ discovered_hosts'[k].status = Host(k).status
                   /\ discovered_hosts'[k].consecutive_failures
                         = Host(k).consecutive_failures
                   /\ discovered_hosts'[k].flash_timer <= Host(k).flash_timer
        /\ \A k \in 1 .. Len(discovered_hosts') :
             IF k \in Indices
             THEN discovered_hosts'[k].status # Host(k).status =>
                     (SweepUpdates /\ k = mon_i)
             ELSE AddSteps /\ discovered_hosts'[k].status = "UP"
      ]_vars

\* A frame has decayed the highlight of an entry that is DOWN.
C19_Witness ==
    /\ main_pc = "poll"
    /\ \E k \in Indices :
          /\ Host(k).status = "DOWN"
          /\ Host(k).flash_timer = 0

\* A step that makes a check_port call.
WorkerProbes(t) == Len(w_log'[t]) = Len(w_log[t]) + 1
MonitorProbes == Len(mon_log') = Len(mon_log) + 1

\* C20 as stated: once app_is_running is false a worker or the monitor
\* makes at most one more check_port call (the one in flight).
C20_OneProbeAfterCancel ==
    [][ ~app_is_running =>
          /\ \A t \in Workers : WorkerProbes(t) => ~w_late[t]
          /\ MonitorProbes => ~mon_late ]_vars

\* C20 as the code has it: once app_is_running is false no worker starts a
\* host, the monitor's loop test ends the loop and the sleep loop takes no
\* further slice; a worker makes calls only for the ports left of the host
\* it is on, the monitor only in the sweep it is in or has already passed
\* the loop test for.
C20_CancelBoundedByHostOrSweep ==
    [][ ~app_is_running =>
          /\ \A t \in Workers :
                /\ ~(w_pc[t] = "loop" /\ w_pc'[t] = "probe")
                /\ WorkerProbes(t) =>
                      (w_pc[t] = "probe" /\ Len(w_log'[t]) <= NUM_COMMON_PORTS)
          /\ ~(net_pc = "mon_test" /\ net_pc' = "mon_lock")
          /\ ~(net_pc = "sleep" /\ sleep_i' # sleep_i)
          /\ MonitorProbes =>
                (net_pc = "sweep" /\ mon_i <= Len(discovered_hosts))
      ]_vars

\* After app_is_running became false the monitor has made a call and is on
\* the second entry of the sweep, about to make another.
C20_Witness ==
    /\ ~app_is_running
    /\ mon_late
    /\ net_pc = "sweep"
    /\ mon_i = 2
    /\ mon_p = 1

FrameGetsLock == (main_pc = "render") ~> (main_pc = "rendering")

\* C21: whoever owns host_list_mutex is inside the registry (a thread
\* that left add by either return, the sort, a sweep or a frame has
\* released it); the mutex is taken only when free, so never by its owner;
\* the monitor does not own it between sweeps; an owner always releases it;
\* and under a fair lock a frame that asks for the mutex obtains it.
C21_LockReleasedAndFrameServed ==
    /\ [](host_list_mutex # "none" => InRegistry = {host_list_mutex})
    /\ [](net_pc \in {"sleep", "mon_test", "mon_lock", "done"} =>
             host_list_mutex # "net")
    /\ [][ (host_list_mutex' # host_list_mutex /\ host_list_mutex' # "none") =>
              host_list_mutex = "none" ]_vars
    /\ (host_list_mutex # "none") ~> (host_list_mutex = "none")
    /\ FrameGetsLock

\* The sentinel's add has returned early on a duplicate, and a frame has
\* obtained the mutex while the network thread is about to ask for it again.
C21_Witness ==
    /\ net_pc = "sort"
    /\ main_pc = "rendering"
    /\ host_list_mutex = "main"
    /\ Len(discovered_hosts) = 2
    /\ \A k \in Indices : Host(k).hostname # "INTERNET"
    /\ HasIp(discovered_hosts, INTERNET_CHECK_IP)

\* The cancel flag is down and discovery is not yet marked complete.
EarlyCancel == ~app_is_running /\ ~discovery_complete

\* No sweep has been entered: no probe or update of the monitor, no alert,
\* every entry as add made it.
NoSweep ==
    /\ net_pc \notin {"mon_lock", "sweep", "sweep_next", "sleep"}
    /\ sweep_order = <<>>
    /\ mon_log = <<>>
    /\ alert_for = 0
    /\ \A k \in Indices :
          Host(k).status = "UP" /\ Host(k).consecutive_failures = 0

DiscoveryWoundUp ==
    /\ \A t \in Workers : w_pc[t] = "done"
    /\ IsSorted
    /\ discovery_complete
    /\ net_pc = "done"

\* C22: if app_is_running becomes false before discovery is marked
\* complete, the network thread still joins every worker, inserts the
\* sentinel (an entry 8.8.8.8 named "INTERNET"), sorts, marks discovery
\* complete and returns, and never enters a sweep: every entry stays UP
\* and no alert is played.
C22_EarlyCancelSkipsMonitoring ==
    /\ [][ (EarlyCancel /\ discovery_complete') =>
              /\ \A t \in Workers : w_pc[t] = "done"
              /\ IsSorted
              /\ \E k \in Indices :
                    /\ Host(k).ip = INTERNET_CHECK_IP
                    /\ Host(k).hostname = "INTERNET" ]_vars
    /\ [](EarlyCancel => []NoSweep)
    /\ EarlyCancel ~> DiscoveryWoundUp

\* The same with the sentinel's add counted by its address: what the code
\* does.
C22_EarlyCancelSkipsMonitoringByAddress ==
    /\ [][ (EarlyCancel /\ discovery_complete') =>
              /\ \A t \in Workers : w_pc[t] = "done"
              /\ IsSorted
              /\ HasIp(discovered_hosts, INTERNET_CHECK_IP) ]_vars
    /\ [](EarlyCancel => []NoSweep)
    /\ EarlyCancel ~> DiscoveryWoundUp

====
